---- MODULE Spec2Model ----
(***************************************************************************)
(* SmartSegment: the App component's session state (App.tsx), the Toolbar  *)
(* and InteractiveCanvas handlers, and the segmentImage service, as a      *)
(* state machine.  React state is the VARIABLES; every event handler and   *)
(* every promise continuation is one action.                               *)
(*                                                                         *)
(* Strings are modelled as sequences of tokens, so that String.includes is *)
(* membership of a token and concatenation is \o.  null, undefined and the *)
(* empty string (all falsy in the code's tests) are the empty sequence.    *)
(***************************************************************************)
EXTENDS Integers, Sequences, FiniteSets, Bags, TLC

VARIABLES
    appState,         \* App.tsx:15
    sourceImage,      \* App.tsx:16
    resultImage,      \* App.tsx:17
    points,           \* App.tsx:18
    mode,             \* App.tsx:19
    errorMessage,     \* App.tsx:20
    hasApiKey,        \* App.tsx:21
    isCheckingKey,    \* App.tsx:22
    permissionError,  \* App.tsx:23
    aistudio,         \* window.aistudio is defined (App.tsx:29)
    envApiKey,        \* process.env.API_KEY is set (part_001:13)
    inflight,         \* bag of pending segmentImage promises awaited at App.tsx:88
    keyDialogs,       \* pending aistudio.openSelectKey promises (App.tsx:52)
    reading,          \* files being read by a FileReader (ImageUploader.tsx:24-29)
    lastOp            \* history: the handler or continuation that ran last

vars == <<appState, sourceImage, resultImage, points, mode, errorMessage,
          hasApiKey, isCheckingKey, permissionError, aistudio, envApiKey,
          inflight, keyDialogs, reading, lastOp>>

session == <<appState, sourceImage, resultImage, points, mode, errorMessage>>

----------------------------------------------------------------------------
(* Bounds of the model *)

MaxPoints == 1
\* Points on the canvas when the point set alone is explored.
MaxCanvasPoints == 3
MaxInFlight == 2
MaxKeyDialogs == 1
Width == 2
Height == 3

----------------------------------------------------------------------------
(* Values *)

Null == <<>>

IDLE == "IDLE"
PROCESSING == "PROCESSING"
SUCCESS == "SUCCESS"
ERROR == "ERROR"
AppStates == {IDLE, PROCESSING, SUCCESS, ERROR}

POSITIVE == "POSITIVE"
NEGATIVE == "NEGATIVE"
PointTypes == {POSITIVE, NEGATIVE}

Includes(s, token) == \E i \in DOMAIN s : s[i] = token

\* Two uploaded files as data URIs (FileReader.readAsDataURL): a png, whose
\* header the service strips, and a gif, whose header it does not.
ImagePng == <<"data:image/png;base64,", "AAAA">>
ImageGif == <<"data:image/gif;base64,", "BBBB">>
Images == {ImagePng, ImageGif}

StrippedHeaders == {"data:image/png;base64,", "data:image/jpeg;base64,",
                    "data:image/jpg;base64,", "data:image/webp;base64,"}

cleanBase64(imageBase64) ==
    IF imageBase64 # Null /\ Head(imageBase64) \in StrippedHeaders
    THEN Tail(imageBase64)
    ELSE imageBase64

----------------------------------------------------------------------------
(* Messages *)

MissingKeyMessage == <<"API Key is missing.", "Please select a key.">>
PermissionDeniedMessage ==
    <<"Permission Denied", ". Please ensure your API Key is valid.",
      "If using a free key, ensure it is active in Google AI Studio.">>
InvalidRequestMessage ==
    <<"Invalid Request.", "The image might be too large or the format unsupported.">>
NoImageMessage ==
    <<"No image was returned by the model.", "Please try adjusting your points.">>
FailedMessage == <<"Failed to segment image.">>
SomethingWrongMessage == <<"Something went wrong. Please try again.">>
PermissionErrorText ==
    <<"Your selected API Key does not have permission",
      "to access the Gemini 3 Pro model.",
      "Please select a paid project key or enable the API.">>

----------------------------------------------------------------------------
(* The external capability: what ai.models.generateContent can answer *)

Err(message, status, code) == [message |-> message, status |-> status, code |-> code]

\* Errors the capability can reject with: a message and, sometimes, a
\* status token or an HTTP-like code.
CapabilityErrors ==
    { Err(<<"got status:", "403", "Forbidden">>, "", 0),
      Err(Null, "PERMISSION_DENIED", 0),
      Err(<<"Forbidden">>, "", 403),
      Err(<<"got status:", "400", "Bad Request">>, "", 0),
      Err(Null, "INVALID_ARGUMENT", 0),
      Err(<<"Network error">>, "", 0),
      Err(Null, "", 0),
      Err(<<"Permission Denied", "by upstream proxy">>, "", 0) }

\* The errors drawn while the whole session is explored: the three forms of
\* a permission failure and one failure of no known class.
SessionErrors ==
    { Err(<<"got status:", "403", "Forbidden">>, "", 0),
      Err(Null, "PERMISSION_DENIED", 0),
      Err(<<"Forbidden">>, "", 403),
      Err(<<"Network error">>, "", 0) }

TextPart == [text |-> <<"Here is the segmented subject">>, mimeType |-> Null, data |-> Null]
ImagePart(mimeType, data) == [text |-> Null, mimeType |-> mimeType, data |-> data]

\* The payload the capability produces for the image it was sent.
SegmentOf(image) == <<"seg:">> \o image
OtherSegmentOf(image) == <<"alt:">> \o image

\* Responses: candidates[0].content.parts, or no candidate at all.
Responses(image) ==
    { [candidates |-> TRUE, parts |-> <<ImagePart(<<"image/png">>, SegmentOf(image))>>],
      [candidates |-> TRUE, parts |-> <<TextPart, ImagePart(<<"image/webp">>, SegmentOf(image))>>],
      [candidates |-> TRUE, parts |-> <<ImagePart(Null, SegmentOf(image))>>],
      [candidates |-> TRUE, parts |-> <<ImagePart(<<"image/png">>, Null),
                                         ImagePart(<<"image/webp">>, OtherSegmentOf(image))>>],
      [candidates |-> TRUE, parts |-> <<ImagePart(<<"image/png">>, SegmentOf(image)),
                                         TextPart,
                                         ImagePart(<<"image/webp">>, OtherSegmentOf(image))>>],
      [candidates |-> TRUE, parts |-> <<TextPart>>],
      [candidates |-> TRUE, parts |-> <<>>],
      [candidates |-> FALSE, parts |-> <<>>] }

\* The responses drawn while the whole session is explored: text and image,
\* an image without a MIME type, and text alone.
SessionResponses(image) ==
    { [candidates |-> TRUE, parts |-> <<TextPart, ImagePart(<<"image/png">>, SegmentOf(image))>>],
      [candidates |-> TRUE, parts |-> <<ImagePart(Null, SegmentOf(image))>>],
      [candidates |-> TRUE, parts |-> <<TextPart>>] }

----------------------------------------------------------------------------
(* services/geminiService: the parts of segmentImage around the call *)

\* Mutant: the first filter keeps every point.
positivePoints_AllPoints(pts) == pts

positivePoints(pts) == SelectSeq(pts, LAMBDA p : p.type = POSITIVE)
negativePoints(pts) == SelectSeq(pts, LAMBDA p : p.type = NEGATIVE)

\* `data:${part.inlineData.mimeType || 'image/png'};base64,${part.inlineData.data}`
DataUri(part) ==
    <<"data:">> \o (IF part.mimeType # Null THEN part.mimeType ELSE <<"image/png">>)
                \o <<";base64,">> \o part.data

\* part.inlineData && part.inlineData.data
HasImageData(part) == part.data # Null

\* for (const part of parts) { if (...) return `data:...` }: the loop from
\* part i on; Null when it falls through.
RECURSIVE ScanParts(_, _)
ScanParts(parts, i) ==
    IF i > Len(parts) THEN Null
    ELSE IF HasImageData(parts[i]) THEN DataUri(parts[i])
    ELSE ScanParts(parts, i + 1)

\* Mutant: the loop keeps going and the last part with image data wins.
ScanResponse_LastImage(response) ==
    IF response.candidates /\ \E i \in DOMAIN response.parts : HasImageData(response.parts[i])
    THEN LET last == CHOOSE i \in DOMAIN response.parts :
                         /\ HasImageData(response.parts[i])
                         /\ \A j \in DOMAIN response.parts :
                                HasImageData(response.parts[j]) => j <= i
         IN  DataUri(response.parts[last])
    ELSE Null

\* The scan of candidates[0].content.parts: the data URI of the first part
\* carrying inline image data, or Null when there is no candidate or the
\* loop falls through.
ScanResponse(response) ==
    IF response.candidates THEN ScanParts(response.parts, 1) ELSE Null

\* A permission-type failure of the capability: a message containing 403,
\* the status PERMISSION_DENIED, or the code 403.
PermissionFailure(error) ==
    Includes(error.message, "403") \/ error.status = "PERMISSION_DENIED" \/ error.code = 403

\* Mutant: the catch block does not look at error.code.
ClassifyError_NoCodeCheck(error) ==
    IF Includes(error.message, "403") \/ error.status = "PERMISSION_DENIED"
    THEN PermissionDeniedMessage
    ELSE IF Includes(error.message, "400") \/ error.status = "INVALID_ARGUMENT"
    THEN InvalidRequestMessage
    ELSE IF error.message # Null THEN error.message ELSE FailedMessage

\* Mutant: the catch block as the older copy in services/geminiService.ts
\* has it, without the invalid-argument branch.
ClassifyError_NoInvalidArgument(error) ==
    IF Includes(error.message, "403") \/ error.status = "PERMISSION_DENIED" \/ error.code = 403
    THEN PermissionDeniedMessage
    ELSE IF error.message # Null THEN error.message ELSE FailedMessage

\* The catch block of segmentImage: the message of the Error it throws.
ClassifyError(error) ==
    IF Includes(error.message, "403") \/ error.status = "PERMISSION_DENIED" \/ error.code = 403
    THEN PermissionDeniedMessage
    ELSE IF Includes(error.message, "400") \/ error.status = "INVALID_ARGUMENT"
    THEN InvalidRequestMessage
    ELSE IF error.message # Null THEN error.message ELSE FailedMessage

\* Mutant: a response without an image is reported as a generic failure.
SegmentImageOnResponse_GenericFailure(response) ==
    LET uri == ScanResponse(response)
    IN  IF uri # Null
        THEN [ok |-> TRUE, value |-> uri]
        ELSE [ok |-> FALSE, value |-> FailedMessage]

\* What segmentImage settles with once generateContent has answered:
\* the throw of "No image was returned" is inside the try, so it goes
\* through the catch block as well.
SegmentImageOnResponse(response) ==
    LET uri == ScanResponse(response)
    IN  IF uri # Null
        THEN [ok |-> TRUE, value |-> uri]
        ELSE [ok |-> FALSE, value |-> ClassifyError(Err(NoImageMessage, "", 0))]

SegmentImageOnError(error) == [ok |-> FALSE, value |-> ClassifyError(error)]

\* What segmentImage puts into its request: the stripped image and the two
\* point lists of the prompt.
Request(imageBase64, pts) ==
    [image |-> cleanBase64(imageBase64),
     positivePoints |-> positivePoints(pts),
     negativePoints |-> negativePoints(pts)]

\* Mutant: segmentImage has lost its check of process.env.API_KEY.
Pending_CallsWithoutKey(imageBase64, keyPresent) ==
    [image |-> cleanBase64(imageBase64), called |-> TRUE]

\* The promise segmentImage returns; called is FALSE when it threw on the
\* missing API key before reaching generateContent.
Pending(imageBase64, keyPresent) ==
    [image |-> cleanBase64(imageBase64), called |-> keyPresent]

----------------------------------------------------------------------------
(* Rendering: which controls exist and which are disabled *)

MainView == ~isCheckingKey /\ hasApiKey
KeyGate == ~isCheckingKey /\ ~hasApiKey
UploaderRendered == MainView /\ sourceImage = Null
WorkAreaRendered == MainView /\ sourceImage # Null

isProcessing == appState = PROCESSING
hasPoints == Len(points) > 0
\* Mutant: the Run Segment button is not disabled while processing.
RunSegmentDisabled_IgnoresProcessing == ~hasPoints
RunSegmentDisabled == isProcessing \/ ~hasPoints
ResetPointsDisabled == isProcessing \/ ~hasPoints
ModeDisabled == isProcessing

\* A promise that is already settled runs its continuation as a microtask,
\* before any further event is dispatched.
Quiescent == \A r \in BagToSet(inflight) : r.called

Op(name) ==
    [op |-> name, image |-> Null, positivePoints |-> <<>>, negativePoints |-> <<>>,
     click |-> Null]

----------------------------------------------------------------------------
(* Initial state: the component has mounted, checkApiKey is running *)

Init ==
    /\ appState = IDLE
    /\ sourceImage = Null
    /\ resultImage = Null
    /\ points = <<>>
    /\ mode = POSITIVE
    /\ errorMessage = Null
    /\ hasApiKey = FALSE
    /\ isCheckingKey = TRUE
    /\ permissionError = Null
    /\ aistudio \in BOOLEAN
    /\ envApiKey \in BOOLEAN
    /\ inflight = EmptyBag
    /\ keyDialogs = 0
    /\ reading = {}
    /\ lastOp = Op("mount")

----------------------------------------------------------------------------
(* API key handling *)

checkApiKey(outcome) ==
    /\ isCheckingKey
    /\ hasApiKey' = IF aistudio THEN outcome = "true" ELSE TRUE
    /\ isCheckingKey' = FALSE
    /\ lastOp' = Op("checkApiKey")
    /\ UNCHANGED <<session, permissionError, aistudio, envApiKey, inflight, keyDialogs, reading>>

handleSelectKey ==
    /\ ~isCheckingKey
    /\ Quiescent
    /\ aistudio => keyDialogs < MaxKeyDialogs
    /\ permissionError' = Null
    /\ keyDialogs' = IF aistudio THEN keyDialogs + 1 ELSE keyDialogs
    /\ lastOp' = Op("handleSelectKey")
    /\ UNCHANGED <<session, hasApiKey, isCheckingKey, aistudio, envApiKey,
                   inflight, reading>>

openSelectKeyResolved ==
    /\ keyDialogs > 0
    /\ Quiescent
    /\ keyDialogs' = keyDialogs - 1
    /\ hasApiKey' = TRUE
    /\ envApiKey' \in {envApiKey, TRUE}
    /\ lastOp' = Op("openSelectKeyResolved")
    /\ UNCHANGED <<session, isCheckingKey, permissionError, aistudio,
                   inflight, reading>>

openSelectKeyRejected ==
    /\ keyDialogs > 0
    /\ Quiescent
    /\ keyDialogs' = keyDialogs - 1
    /\ lastOp' = Op("openSelectKeyRejected")
    /\ UNCHANGED <<session, hasApiKey, isCheckingKey, permissionError, aistudio,
                   envApiKey, inflight, reading>>

----------------------------------------------------------------------------
(* Image upload *)

\* ImageUploader.processFile: a FileReader starts reading the chosen file.
processFile(image) ==
    /\ UploaderRendered
    /\ Quiescent
    /\ image \notin reading
    /\ reading' = reading \cup {image}
    /\ lastOp' = [Op("processFile") EXCEPT !.image = image]
    /\ UNCHANGED <<session, hasApiKey, isCheckingKey, permissionError, aistudio,
                   envApiKey, inflight, keyDialogs>>

\* Mutant: like resetAll, the handler forgets setErrorMessage(null).
handleImageSelected_KeepsError(base64) ==
    /\ base64 \in reading
    /\ Quiescent
    /\ reading' = reading \ {base64}
    /\ sourceImage' = base64
    /\ resultImage' = Null
    /\ points' = <<>>
    /\ appState' = IDLE
    /\ lastOp' = [Op("handleImageSelected") EXCEPT !.image = base64]
    /\ UNCHANGED <<mode, errorMessage, hasApiKey, isCheckingKey, permissionError,
                   aistudio, envApiKey, inflight, keyDialogs>>

\* reader.onloadend calls onImageSelected, whatever is rendered by then.
handleImageSelected(base64) ==
    /\ base64 \in reading
    /\ Quiescent
    /\ reading' = reading \ {base64}
    /\ sourceImage' = base64
    /\ resultImage' = Null
    /\ points' = <<>>
    /\ appState' = IDLE
    /\ errorMessage' = Null
    /\ lastOp' = [Op("handleImageSelected") EXCEPT !.image = base64]
    /\ UNCHANGED <<mode, hasApiKey, isCheckingKey, permissionError, aistudio,
                   envApiKey, inflight, keyDialogs>>

----------------------------------------------------------------------------
(* InteractiveCanvas and the point set *)

\* Point ids are opaque and only ever compared for equality, so what
\* Math.random() produces is, up to renaming, either the first id no point
\* carries or the id of a point already placed.
PointIds == 1..(MaxPoints + MaxCanvasPoints + 1)
FreshId == CHOOSE id \in PointIds :
               /\ \A i \in DOMAIN points : points[i].id # id
               /\ \A other \in 1..(id - 1) : \E i \in DOMAIN points : points[i].id = other
RandomIds == {FreshId} \cup {points[i].id : i \in DOMAIN points}

\* Pointer positions relative to the image's bounding box (clickX, clickY):
\* one inside the image and one in the padding right of it.
Clicks == {<<1, 1>>, <<Width + 1, 1>>}

\* Every pointer position on and around the image's bounding box.
AllClicks == (-1..(Width + 1)) \X (-1..(Height + 1))

\* Mutant: the comparisons are >= and <=, so the edge of the box is outside.
OutOfBounds_RejectsBoundary(clickX, clickY) ==
    clickX <= 0 \/ clickX >= Width \/ clickY <= 0 \/ clickY >= Height

\* Mutant: only clickX is compared with the box.
OutOfBounds_ChecksXOnly(clickX, clickY) ==
    clickX < 0 \/ clickX > Width

OutOfBounds(clickX, clickY) ==
    clickX < 0 \/ clickX > Width \/ clickY < 0 \/ clickY > Height

\* xPct = clickX / rect.width, kept as an exact fraction.
Pct(click, extent) == [num |-> click, den |-> extent]

\* Mutant: the point does not take its type from mode.
newPoint_AlwaysPositive(clickX, clickY, id) ==
    [id |-> id, x |-> Pct(clickX, Width), y |-> Pct(clickY, Height), type |-> POSITIVE]

newPoint(clickX, clickY, id) ==
    [id |-> id, x |-> Pct(clickX, Width), y |-> Pct(clickY, Height), type |-> mode]

handlePointAdd(point) == points' = Append(points, point)

\* prev.filter((p) => p.id !== id)
removePoint(prev, id) == SelectSeq(prev, LAMBDA p : p.id # id)

handlePointRemove(id) == points' = removePoint(points, id)

\* A click on the image container; id is what Math.random() produces.
handleImageClick(clickX, clickY, id) ==
    /\ WorkAreaRendered
    /\ Quiescent
    /\ IF OutOfBounds(clickX, clickY)
       THEN /\ lastOp' = [Op("handleImageClick:ignored") EXCEPT !.click = <<clickX, clickY>>]
            /\ UNCHANGED points
       ELSE /\ handlePointAdd(newPoint(clickX, clickY, id))
            /\ lastOp' = [Op("handleImageClick:added") EXCEPT !.click = <<clickX, clickY>>]
    /\ UNCHANGED <<appState, sourceImage, resultImage, mode, errorMessage,
                   hasApiKey, isCheckingKey, permissionError, aistudio, envApiKey,
                   inflight, keyDialogs, reading>>

\* A click on the marker of points[i]: stopPropagation, then onPointRemove.
handlePointClick(i) ==
    /\ WorkAreaRendered
    /\ Quiescent
    /\ i \in DOMAIN points
    /\ handlePointRemove(points[i].id)
    /\ lastOp' = Op("handlePointClick")
    /\ UNCHANGED <<appState, sourceImage, resultImage, mode, errorMessage,
                   hasApiKey, isCheckingKey, permissionError, aistudio, envApiKey,
                   inflight, keyDialogs, reading>>

----------------------------------------------------------------------------
(* Toolbar *)

setMode(m) ==
    /\ WorkAreaRendered
    /\ Quiescent
    /\ ~ModeDisabled
    /\ mode' = m
    /\ lastOp' = Op("setMode")
    /\ UNCHANGED <<appState, sourceImage, resultImage, points, errorMessage,
                   hasApiKey, isCheckingKey, permissionError, aistudio, envApiKey,
                   inflight, keyDialogs, reading>>

handleResetPoints ==
    /\ WorkAreaRendered
    /\ Quiescent
    /\ ~ResetPointsDisabled
    /\ points' = <<>>
    /\ lastOp' = Op("handleResetPoints")
    /\ UNCHANGED <<appState, sourceImage, resultImage, mode, errorMessage,
                   hasApiKey, isCheckingKey, permissionError, aistudio, envApiKey,
                   inflight, keyDialogs, reading>>

\* handleProcess up to its await: the guard, the two setters and the call
\* of segmentImage, which throws at once when the API key is missing and
\* otherwise invokes generateContent.
handleProcess ==
    IF sourceImage = Null \/ Len(points) = 0
    THEN /\ lastOp' = Op("handleProcess:returned")
         /\ UNCHANGED <<session, inflight>>
    ELSE /\ BagCardinality(inflight) < MaxInFlight
         /\ appState' = PROCESSING
         /\ errorMessage' = Null
         /\ inflight' = inflight (+) SetToBag({Pending(sourceImage, envApiKey)})
         /\ lastOp' = [op |-> "handleProcess:started", click |-> Null]
                          @@ Request(sourceImage, points)
         /\ UNCHANGED <<sourceImage, resultImage, points, mode>>

\* Mutant: the button is always live and handleProcess has lost its early
\* return.
RunSegmentClick_Unguarded ==
    /\ MainView
    /\ Quiescent
    /\ BagCardinality(inflight) < MaxInFlight
    /\ appState' = PROCESSING
    /\ errorMessage' = Null
    /\ inflight' = inflight (+) SetToBag({Pending(sourceImage, envApiKey)})
    /\ lastOp' = [op |-> "handleProcess:started", click |-> Null]
                          @@ Request(sourceImage, points)
    /\ UNCHANGED <<sourceImage, resultImage, points, mode, hasApiKey, isCheckingKey,
                   permissionError, aistudio, envApiKey, keyDialogs, reading>>

\* The user goes for the Run Segment button: a click reaches onProcess only
\* when the Toolbar is rendered and the button is not disabled.
RunSegmentClick ==
    /\ MainView
    /\ Quiescent
    /\ IF WorkAreaRendered /\ ~RunSegmentDisabled
       THEN handleProcess
       ELSE /\ lastOp' = Op("RunSegmentClick:ignored")
            /\ UNCHANGED <<session, inflight>>
    /\ UNCHANGED <<hasApiKey, isCheckingKey, permissionError, aistudio, envApiKey,
                   keyDialogs, reading>>

\* Mutant: Start Over also puts mode back to POSITIVE.
resetAll_ResetsMode ==
    /\ WorkAreaRendered
    /\ Quiescent
    /\ sourceImage' = Null
    /\ resultImage' = Null
    /\ points' = <<>>
    /\ appState' = IDLE
    /\ mode' = POSITIVE
    /\ lastOp' = Op("resetAll")
    /\ UNCHANGED <<errorMessage, hasApiKey, isCheckingKey, permissionError,
                   aistudio, envApiKey, inflight, keyDialogs, reading>>

\* Start Over
resetAll ==
    /\ WorkAreaRendered
    /\ Quiescent
    /\ sourceImage' = Null
    /\ resultImage' = Null
    /\ points' = <<>>
    /\ appState' = IDLE
    /\ lastOp' = Op("resetAll")
    /\ UNCHANGED <<mode, errorMessage, hasApiKey, isCheckingKey, permissionError,
                   aistudio, envApiKey, inflight, keyDialogs, reading>>

----------------------------------------------------------------------------
(* handleProcess after its await *)

\* Mutant: the result is stored but setAppState(SUCCESS) is missing.
handleProcessThen_StaysProcessing(segmentedImage) ==
    /\ resultImage' = segmentedImage
    /\ UNCHANGED <<appState, errorMessage, hasApiKey, permissionError>>

\* try: setResultImage(segmentedImage); setAppState(SUCCESS)
handleProcessThen(segmentedImage) ==
    /\ resultImage' = segmentedImage
    /\ appState' = SUCCESS
    /\ UNCHANGED <<errorMessage, hasApiKey, permissionError>>

\* Mutant: the permission branch only drops the key and sets no text.
handleProcessCatch_NoPermissionText(message) ==
    /\ appState' = ERROR
    /\ UNCHANGED resultImage
    /\ IF Includes(message, "Permission Denied")
       THEN /\ hasApiKey' = FALSE
            /\ UNCHANGED <<errorMessage, permissionError>>
       ELSE /\ errorMessage' = (IF message # Null THEN message ELSE SomethingWrongMessage)
            /\ UNCHANGED <<hasApiKey, permissionError>>

\* Mutant: the catch block also calls setResultImage(null).
handleProcessCatch_ClearsResult(message) ==
    /\ appState' = ERROR
    /\ resultImage' = Null
    /\ IF Includes(message, "Permission Denied")
       THEN /\ hasApiKey' = FALSE
            /\ permissionError' = PermissionErrorText
            /\ UNCHANGED errorMessage
       ELSE /\ errorMessage' = (IF message # Null THEN message ELSE SomethingWrongMessage)
            /\ UNCHANGED <<hasApiKey, permissionError>>

\* catch (error): message is error.message
handleProcessCatch(message) ==
    /\ appState' = ERROR
    /\ UNCHANGED resultImage
    /\ IF Includes(message, "Permission Denied")
       THEN /\ hasApiKey' = FALSE
            /\ permissionError' = PermissionErrorText
            /\ UNCHANGED errorMessage
       ELSE /\ errorMessage' = (IF message # Null THEN message ELSE SomethingWrongMessage)
            /\ UNCHANGED <<hasApiKey, permissionError>>

\* Mutant: a failed request is issued again while its failure is handled.
Settle_Retries(r, outcome) ==
    /\ inflight' = IF outcome.ok THEN inflight (-) SetToBag({r}) ELSE inflight
    /\ IF outcome.ok
       THEN handleProcessThen(outcome.value)
       ELSE handleProcessCatch(outcome.value)
    /\ UNCHANGED <<sourceImage, points, mode, isCheckingKey, aistudio, envApiKey,
                   keyDialogs, reading>>

\* The promise of segmentImage settles and handleProcess resumes.
Settle(r, outcome) ==
    /\ inflight' = inflight (-) SetToBag({r})
    /\ IF outcome.ok
       THEN handleProcessThen(outcome.value)
       ELSE handleProcessCatch(outcome.value)
    /\ UNCHANGED <<sourceImage, points, mode, isCheckingKey, aistudio, envApiKey,
                   keyDialogs, reading>>

\* generateContent answers request r with a response.
generateContentResolved(r, response) ==
    /\ BagIn(r, inflight)
    /\ r.called
    /\ Quiescent
    /\ Settle(r, SegmentImageOnResponse(response))
    /\ lastOp' = [Op(IF ScanResponse(response) # Null THEN "resolved" ELSE "noImage")
                    EXCEPT !.image = ScanResponse(response)]

\* generateContent rejects request r with an error.
generateContentRejected(r, error) ==
    /\ BagIn(r, inflight)
    /\ r.called
    /\ Quiescent
    /\ Settle(r, SegmentImageOnError(error))
    /\ lastOp' = Op(IF PermissionFailure(error) THEN "rejected:permission" ELSE "rejected")

\* segmentImage threw before the call: process.env.API_KEY was missing.
missingKeyRejected(r) ==
    /\ BagIn(r, inflight)
    /\ ~r.called
    /\ Settle(r, [ok |-> FALSE, value |-> MissingKeyMessage])
    /\ lastOp' = Op("missingKey")

----------------------------------------------------------------------------
(* Specification *)

Next ==
    \/ \E outcome \in {"true", "false", "throws"} : checkApiKey(outcome)
    \/ handleSelectKey
    \/ openSelectKeyResolved
    \/ openSelectKeyRejected
    \/ \E image \in Images : processFile(image)
    \/ \E image \in Images : handleImageSelected(image)
    \/ \E c \in Clicks, id \in RandomIds :
           /\ OutOfBounds(c[1], c[2]) \/ Len(points) < MaxPoints
           /\ handleImageClick(c[1], c[2], id)
    \/ \E i \in 1..MaxPoints : handlePointClick(i)
    \/ \E m \in PointTypes : setMode(m)
    \/ handleResetPoints
    \/ RunSegmentClick
    \/ resetAll
    \/ \E r \in BagToSet(inflight) : \E response \in SessionResponses(r.image) :
           generateContentResolved(r, response)
    \/ \E r \in BagToSet(inflight) : \E error \in SessionErrors :
           generateContentRejected(r, error)
    \/ \E r \in BagToSet(inflight) : missingKeyRejected(r)

Spec == Init /\ [][Next]_vars

\* The capability answers a pending call, or the promise that was rejected
\* for the missing key runs its continuation.
Answer ==
    \/ \E r \in BagToSet(inflight) : \E response \in SessionResponses(r.image) :
           generateContentResolved(r, response)
    \/ \E r \in BagToSet(inflight) : \E error \in SessionErrors :
           generateContentRejected(r, error)
    \/ \E r \in BagToSet(inflight) : missingKeyRejected(r)

----------------------------------------------------------------------------
(* The point set alone: the canvas with up to MaxCanvasPoints points *)

CanvasNext ==
    \/ \E outcome \in {"true", "false", "throws"} : checkApiKey(outcome)
    \/ \E image \in Images : processFile(image)
    \/ \E image \in Images : handleImageSelected(image)
    \/ \E c \in Clicks, id \in RandomIds :
           /\ OutOfBounds(c[1], c[2]) \/ Len(points) < MaxCanvasPoints
           /\ handleImageClick(c[1], c[2], id)
    \/ \E i \in 1..MaxCanvasPoints : handlePointClick(i)
    \/ \E m \in PointTypes : setMode(m)
    \/ handleResetPoints

SpecCanvas == Init /\ [][CanvasNext]_vars

----------------------------------------------------------------------------
(* From the canvas to the request: points are placed and removed, then
   Run Segment is clicked *)

\* An image is loaded, the key check has passed, no point is placed yet.
LoadedInit ==
    /\ appState = IDLE
    /\ sourceImage \in Images
    /\ resultImage = Null
    /\ points = <<>>
    /\ mode = POSITIVE
    /\ errorMessage = Null
    /\ hasApiKey = TRUE
    /\ isCheckingKey = FALSE
    /\ permissionError = Null
    /\ aistudio \in BOOLEAN
    /\ envApiKey = TRUE
    /\ inflight = EmptyBag
    /\ keyDialogs = 0
    /\ reading = {}
    /\ lastOp = [Op("handleImageSelected") EXCEPT !.image = sourceImage]

RequestNext ==
    \/ \E id \in RandomIds :
           /\ Len(points) < MaxCanvasPoints
           /\ handleImageClick(1, 1, id)
    \/ \E i \in 1..MaxCanvasPoints : handlePointClick(i)
    \/ \E m \in PointTypes : setMode(m)
    \/ RunSegmentClick
    \/ \E r \in BagToSet(inflight) : \E response \in SessionResponses(r.image) :
           generateContentResolved(r, response)

SpecRequest == LoadedInit /\ [][RequestNext]_vars

----------------------------------------------------------------------------
(* The click handler alone: an image is loaded and every pointer position
   on and around it is clicked *)

\* Math.random() is only called for a click that passed the bounds check.
ClicksNext ==
    \/ \E c \in AllClicks :
           \E id \in (IF OutOfBounds(c[1], c[2]) THEN {FreshId} ELSE RandomIds) :
               /\ OutOfBounds(c[1], c[2]) \/ Len(points) < MaxPoints
               /\ handleImageClick(c[1], c[2], id)
    \/ \E i \in 1..MaxPoints : handlePointClick(i)

SpecClicks == LoadedInit /\ [][ClicksNext]_vars

----------------------------------------------------------------------------
(* segmentImage alone: one run after the other, over every response and
   every error of the capability *)

\* The point lists handed to segmentImage: points placed one after the
\* other at the same spot, of either type.
ServicePointLists ==
    UNION { { [k \in 1..n |-> [id |-> k, x |-> Pct(1, Width), y |-> Pct(1, Height),
                                type |-> t[k]]] : t \in [1..n -> PointTypes] }
            : n \in 1..MaxPoints }

\* An image is loaded, points are placed, the key check has passed and
\* nothing has been run yet.
ServiceInit ==
    /\ appState = IDLE
    /\ sourceImage \in Images
    /\ resultImage = Null
    /\ points \in ServicePointLists
    /\ mode \in PointTypes
    /\ errorMessage = Null
    /\ hasApiKey = TRUE
    /\ isCheckingKey = FALSE
    /\ permissionError = Null
    /\ aistudio \in BOOLEAN
    /\ envApiKey \in BOOLEAN
    /\ inflight = EmptyBag
    /\ keyDialogs = 0
    /\ reading = {}
    /\ lastOp = Op("setMode")

ServiceNext ==
    \/ RunSegmentClick
    \/ \E r \in BagToSet(inflight) : \E response \in Responses(r.image) :
           generateContentResolved(r, response)
    \/ \E r \in BagToSet(inflight) : \E error \in CapabilityErrors :
           generateContentRejected(r, error)
    \/ \E r \in BagToSet(inflight) : missingKeyRejected(r)

SpecService == ServiceInit /\ [][ServiceNext]_vars

----------------------------------------------------------------------------
(* Runs and resets: the user triggers, starts over and loads images while
   the capability answers every call in the end *)

RunsNext ==
    \/ RunSegmentClick
    \/ resetAll
    \/ \E image \in Images : processFile(image)
    \/ \E image \in Images : handleImageSelected(image)
    \/ \E id \in RandomIds :
           /\ Len(points) < MaxPoints
           /\ handleImageClick(1, 1, id)
    \/ Answer

\* generateContent returns a promise that settles when the HTTP call ends,
\* and a settled promise always runs its continuation.
FairRuns == ServiceInit /\ [][RunsNext]_vars /\ WF_vars(Answer)

----------------------------------------------------------------------------
(* Vocabulary of the properties *)

\* Number of segmentation requests that reached the capability and have
\* not been answered yet.
Outstanding ==
    LET called == {r \in BagToSet(inflight) : r.called}
    IN  BagCardinality([r \in called |-> inflight[r]])

\* The steps in which the user triggered processing.
TriggerOps == {"RunSegmentClick:ignored", "handleProcess:returned", "handleProcess:started"}

\* The results a successful segmentation of the image can produce.
ResultsFor(image) ==
    {ScanResponse(response) : response \in SessionResponses(cleanBase64(image))} \ {Null}

----------------------------------------------------------------------------
(* Properties *)

\* C1: in every reachable state at most one segmentation request is
\* outstanding, whatever the interleaving of user actions with the
\* resolution of the external call.
C1_SingleFlight == Outstanding <= 1

\* C2: in every reachable state, if a segmentation request issued by
\* handleProcess has not resolved yet, the session state is PROCESSING.
C2_OutstandingImpliesProcessing == Outstanding > 0 => appState = PROCESSING

\* C3: while state = PROCESSING a second processing trigger has no effect:
\* it issues no request and leaves state, sourceImage, resultImage, points
\* and errorMessage unchanged.
C3_TriggerWhileProcessingIgnored ==
    [][(appState = PROCESSING /\ lastOp'.op \in TriggerOps)
         => /\ inflight' = inflight
            /\ appState' = appState
            /\ sourceImage' = sourceImage
            /\ resultImage' = resultImage
            /\ points' = points
            /\ errorMessage' = errorMessage]_vars

\* C3 witness: the Run Segment button was pressed while a request was
\* outstanding in PROCESSING, with points placed, and nothing was started.
C3_Witness ==
    /\ lastOp.op = "RunSegmentClick:ignored"
    /\ appState = PROCESSING
    /\ Outstanding = 1
    /\ hasPoints

\* C4: in every reachable state resultImage is present only if it was
\* produced by a successful segmentation of the current sourceImage; it is
\* never present without a source image and never the result of a request
\* issued for another image.
C4_ResultBelongsToSource ==
    resultImage # Null => sourceImage # Null /\ resultImage \in ResultsFor(sourceImage)

\* C5: loading a new source image, from any session state, leaves points
\* empty, resultImage absent, state IDLE, errorMessage absent and
\* sourceImage equal to the loaded image.
C5_ImageLoadResets ==
    lastOp.op = "handleImageSelected"
        => /\ points = <<>>
           /\ resultImage = Null
           /\ appState = IDLE
           /\ errorMessage = Null
           /\ sourceImage = lastOp.image
           /\ sourceImage \in Images

\* C5 witness: an image was loaded while a segmentation request for an
\* earlier image was still outstanding.
C5_Witness ==
    /\ lastOp.op = "handleImageSelected"
    /\ Outstanding > 0
    /\ sourceImage \in Images
    /\ appState = IDLE

\* C6: triggering processing when sourceImage is absent or the point set is
\* empty is a no-op: the state keeps its value, no request is issued, and
\* errorMessage, resultImage, points and sourceImage are unchanged.
C6_TriggerWithoutInputIsNoOp ==
    [][((sourceImage = Null \/ Len(points) = 0) /\ lastOp'.op \in TriggerOps)
         => /\ inflight' = inflight
            /\ appState' = appState
            /\ sourceImage' = sourceImage
            /\ resultImage' = resultImage
            /\ points' = points
            /\ errorMessage' = errorMessage]_vars

\* C6 witness: with an image loaded and no point placed, the trigger was
\* pressed outside PROCESSING and ignored.
C6_Witness ==
    /\ lastOp.op \in {"RunSegmentClick:ignored", "handleProcess:returned"}
    /\ appState # PROCESSING
    /\ sourceImage # Null
    /\ Len(points) = 0

\* C7: in every reachable state errorMessage is present only if
\* state = ERROR.
C7_ErrorMessageOnlyInError == errorMessage # Null => appState = ERROR

\* C8: an explicit reset (resetAll), from any state, results in state IDLE
\* with sourceImage absent, points empty, resultImage absent and
\* errorMessage absent.
C8_ResetClearsEverything ==
    lastOp.op = "resetAll"
        => /\ appState = IDLE
           /\ sourceImage = Null
           /\ points = <<>>
           /\ resultImage = Null
           /\ errorMessage = Null

\* C9: when the external call resolves with a result image, the session
\* goes from PROCESSING to SUCCESS with resultImage set to the returned
\* image and errorMessage absent.
C9_SuccessFromProcessing ==
    [][lastOp'.op = "resolved"
         => /\ appState = PROCESSING
            /\ appState' = SUCCESS
            /\ resultImage' = lastOp'.image
            /\ errorMessage' = Null]_vars

\* C10 as stated: when the capability raises a permission-type failure, the
\* session is in ERROR, errorMessage is set, and hasApiKey is false.
C10_PermissionFailureSetsErrorMessage ==
    lastOp.op = "rejected:permission"
        => /\ appState = ERROR
           /\ errorMessage # Null
           /\ hasApiKey = FALSE

\* C10 as amended: when the capability raises a permission-type failure, the
\* session transitions to ERROR, the permission message is stored in
\* permissionError while errorMessage is left as it was, and hasApiKey
\* becomes false.
C10_PermissionFailureRoutesToKeyScreen ==
    [][lastOp'.op = "rejected:permission"
         => /\ appState' = ERROR
            /\ permissionError' = PermissionErrorText
            /\ errorMessage' = errorMessage
            /\ hasApiKey' = FALSE]_vars

\* C10 witness: a permission failure has just been handled; the session is
\* in ERROR without an errorMessage and the key screen shows the reason.
C10_Witness ==
    /\ lastOp.op = "rejected:permission"
    /\ appState = ERROR
    /\ errorMessage = Null
    /\ permissionError = PermissionErrorText
    /\ hasApiKey = FALSE

----------------------------------------------------------------------------
(* Failure handling: C11 .. C15 *)

\* The steps in which handleProcess resumed in its catch block.
FailureOps == {"rejected", "rejected:permission", "noImage", "missingKey"}

\* The steps in which generateContent answered a call.
AnswerOps == {"resolved", "noImage", "rejected", "rejected:permission"}

\* C11: once a failure of segmentImage has been handled, whatever its class,
\* the session is in ERROR and either errorMessage holds a message or the
\* key screen is shown (hasApiKey is false and permissionError is set).
C11_FailureShowsMessageOrKeyScreen ==
    lastOp.op \in FailureOps =>
        /\ appState = ERROR
        /\ \/ errorMessage # Null
           \/ hasApiKey = FALSE /\ permissionError # Null

\* C11 witness: an invalid-argument failure has just been handled.
C11_Witness ==
    /\ lastOp.op = "rejected"
    /\ appState = ERROR
    /\ errorMessage = InvalidRequestMessage

\* The key screen is shown and there is nothing its button can open: without
\* window.aistudio handleSelectKey only clears permissionError.
LockedOut == KeyGate /\ ~aistudio

\* Nothing the user or the environment does leaves LockedOut.
LockedOutIsForGood == [][LockedOut => LockedOut']_vars

\* C12: after a failure the session is never stuck: the user can always get
\* back to where a trigger is accepted, points can be changed and an image
\* can be loaded, window.aistudio present or not; so the session is never
\* behind the key screen with no way to leave it.
C12_NeverStuckAfterFailure == ~LockedOut

\* C13: the accepted trigger and the handling of a failure each leave
\* resultImage, sourceImage, points and mode as they were, so a result of
\* an earlier run is still there in ERROR.
C13_FailureKeepsResultAndInputs ==
    [][lastOp'.op \in FailureOps \cup {"handleProcess:started"} =>
           /\ resultImage' = resultImage
           /\ sourceImage' = sourceImage
           /\ points' = points
           /\ mode' = mode]_vars

\* C13 witness: a failure has been handled and the result of an earlier
\* run is still shown.
C13_Witness ==
    /\ lastOp.op \in FailureOps
    /\ appState = ERROR
    /\ resultImage # Null

\* C14: an accepted trigger with the API key present invokes generateContent
\* once, every answer ends one invocation, and no other step (the handling
\* of a failure included) invokes it.
C14_OneInvocationPerTrigger ==
    [][/\ lastOp'.op = "handleProcess:started" =>
              Outstanding' = Outstanding + (IF envApiKey THEN 1 ELSE 0)
       /\ lastOp'.op \in AnswerOps => Outstanding' = Outstanding - 1
       /\ lastOp'.op \notin AnswerOps \cup {"handleProcess:started"} =>
              Outstanding' = Outstanding]_vars

\* C14 witness: a call has failed, its failure has been handled and
\* no call is outstanding.
C14_Witness ==
    /\ lastOp.op \in {"rejected", "rejected:permission"}
    /\ appState = ERROR
    /\ Outstanding = 0
    /\ inflight = EmptyBag

\* C15: without an API key an accepted trigger invokes nothing; segmentImage
\* has already failed, the failure is handled before anything else happens,
\* and it leaves the session in ERROR with the missing-key message.
C15_MissingKeyNeverCalls ==
    [][/\ (lastOp'.op = "handleProcess:started" /\ ~envApiKey) =>
              Outstanding' = Outstanding /\ ~Quiescent'
       /\ ~Quiescent => lastOp'.op = "missingKey"
       /\ lastOp'.op = "missingKey" =>
              /\ Outstanding' = Outstanding
              /\ appState' = ERROR
              /\ errorMessage' = MissingKeyMessage]_vars

\* C15 witness: a trigger without an API key has ended in ERROR.
C15_Witness ==
    /\ lastOp.op = "missingKey"
    /\ ~envApiKey
    /\ appState = ERROR
    /\ errorMessage = MissingKeyMessage
    /\ Outstanding = 0

----------------------------------------------------------------------------
(* What segmentImage makes of the capability's answer: C16 .. C18 *)

\* The response has a segment with inline image data.
HasImageSegment(response) ==
    /\ response.candidates
    /\ \E i \in DOMAIN response.parts : response.parts[i].data # Null

\* The first such segment, in response order.
FirstImageSegment(response) ==
    LET first == CHOOSE i \in DOMAIN response.parts :
                     /\ response.parts[i].data # Null
                     /\ \A j \in 1..(i - 1) : response.parts[j].data = Null
    IN  response.parts[first]

\* C16, as claimed: a response with an image segment gives the data URI of
\* its first image segment, built with that segment's MIME type.
C16_FirstImageWithItsMimeType ==
    [][\A r \in BagToSet(inflight) : \A response \in Responses(r.image) :
           (HasImageSegment(response) /\ generateContentResolved(r, response)) =>
               LET segment == FirstImageSegment(response)
               IN  /\ appState' = SUCCESS
                   /\ resultImage' = <<"data:">> \o segment.mimeType
                                         \o <<";base64,">> \o segment.data]_vars

\* C16, amended: a response with an image segment gives the data URI of its
\* first image segment, built with that segment's MIME type, or with
\* image/png when the segment has none; text segments and later image
\* segments do not matter.
C16_FirstImageWithMimeOrPng ==
    [][\A r \in BagToSet(inflight) : \A response \in Responses(r.image) :
           (HasImageSegment(response) /\ generateContentResolved(r, response)) =>
               LET segment == FirstImageSegment(response)
                   mimeType == IF segment.mimeType # Null THEN segment.mimeType
                               ELSE <<"image/png">>
               IN  /\ appState' = SUCCESS
                   /\ resultImage' = <<"data:">> \o mimeType
                                         \o <<";base64,">> \o segment.data]_vars

\* C16 witness: the result shown is the image segment that came after a
\* text segment.
C16_Witness ==
    /\ lastOp.op = "resolved"
    /\ appState = SUCCESS
    /\ resultImage = <<"data:", "image/webp", ";base64,">>
                         \o SegmentOf(cleanBase64(sourceImage))

\* C17: a response without an image segment (text only, no segment, no
\* candidate) makes segmentImage fail with the no-image message, which is
\* none of the permission, invalid-request and missing-key messages, and
\* the session goes to ERROR with it.
C17_NoImageIsItsOwnFailure ==
    [][\A r \in BagToSet(inflight) : \A response \in Responses(r.image) :
           (~HasImageSegment(response) /\ generateContentResolved(r, response)) =>
               /\ SegmentImageOnResponse(response) = [ok |-> FALSE, value |-> NoImageMessage]
               /\ NoImageMessage \notin {PermissionDeniedMessage, InvalidRequestMessage,
                                         MissingKeyMessage}
               /\ appState' = ERROR
               /\ errorMessage' = NoImageMessage]_vars

\* C17 witness: a response without an image has ended in ERROR.
C17_Witness ==
    /\ lastOp.op = "noImage"
    /\ appState = ERROR
    /\ errorMessage = NoImageMessage

\* The class of an error of the capability.
ErrorClass(error) ==
    IF Includes(error.message, "403") \/ error.status = "PERMISSION_DENIED" \/ error.code = 403
    THEN "permission-denied"
    ELSE IF Includes(error.message, "400") \/ error.status = "INVALID_ARGUMENT"
    THEN "invalid-argument"
    ELSE "unknown"

\* The reason of each class as claimed: the message of an unknown failure
\* is passed through.
ClaimedReason(error) ==
    CASE ErrorClass(error) = "permission-denied" -> PermissionDeniedMessage
      [] ErrorClass(error) = "invalid-argument" -> InvalidRequestMessage
      [] ErrorClass(error) = "unknown" -> error.message

\* The same, with the fixed message an unknown failure without a message
\* of its own gets.
ReasonOrDefault(error) ==
    IF ErrorClass(error) = "unknown" /\ error.message = Null
    THEN FailedMessage
    ELSE ClaimedReason(error)

----------------------------------------------------------------------------
(* The point set: C19, C20 *)

\* The sequence without its i-th element.
RemoveAt(seq, i) == SubSeq(seq, 1, i - 1) \o SubSeq(seq, i + 1, Len(seq))

\* C19: whatever clicks, removals and clears came before, no two points of
\* the point set share an id.
C19_IdsUnique ==
    \A i, j \in DOMAIN points : points[i].id = points[j].id => i = j

\* C20: a click on a marker removes that one point and leaves the others in
\* their order; removing an id no point has changes nothing; a click on the
\* image appends one point at the end.
C20_RemoveTakesOnePointAddAppends ==
    [][/\ lastOp'.op = "handlePointClick" =>
              \E i \in DOMAIN points : points' = RemoveAt(points, i)
       /\ \A id \in PointIds :
              (\A i \in DOMAIN points : points[i].id # id) => removePoint(points, id) = points
       /\ lastOp'.op = "handleImageClick:added" =>
              /\ Len(points') = Len(points) + 1
              /\ SubSeq(points', 1, Len(points)) = points]_vars

----------------------------------------------------------------------------
(* Clicks on the canvas: C21 .. C23 *)

\* The pointer is on the image's bounding box, its edge included.
Inside(click) ==
    0 <= click[1] /\ click[1] <= Width /\ 0 <= click[2] /\ click[2] <= Height

\* The value of the fraction lies in [0, 1].
InUnit(pct) == pct.den > 0 /\ 0 <= pct.num /\ pct.num <= pct.den

C22_OutsideClickIsDiscarded ==
    [][(lastOp'.click # Null /\ ~Inside(lastOp'.click)) =>
           /\ points' = points
           /\ appState' = appState
           /\ errorMessage' = errorMessage
           /\ UNCHANGED <<sourceImage, resultImage, mode, hasApiKey, permissionError>>]_vars

\* C22 witness: a click off the image has been discarded while a point was
\* placed and no error was shown.
C22_Witness ==
    /\ lastOp.click = <<Width + 1, Height>>
    /\ Len(points) > 0
    /\ appState = IDLE
    /\ errorMessage = Null

\* C23: a click on a marker removes exactly the point of that marker and
\* goes no further: the point set afterwards is the one before without
\* that point, and holds no point that was not there before.
C23_MarkerClickRemovesThatPointOnly ==
    [][lastOp'.op = "handlePointClick" =>
           /\ Len(points') = Len(points) - 1
           /\ \E i \in DOMAIN points : points' = RemoveAt(points, i)
           /\ \A k \in DOMAIN points' : \E j \in DOMAIN points : points'[k] = points[j]]_vars

----------------------------------------------------------------------------
(* The request and the mode: C24 .. C26 *)

\* The positions of the points of one type, and the k-th of them.
IndicesOf(pts, type) == {i \in DOMAIN pts : pts[i].type = type}
KthOf(indices, k) == CHOOSE i \in indices : Cardinality({j \in indices : j < i}) = k - 1

\* list holds exactly the points of pts of the given type, in the order
\* they have in pts.
IsSublistOfType(list, pts, type) ==
    /\ Len(list) = Cardinality(IndicesOf(pts, type))
    /\ \A k \in DOMAIN list : list[k] = pts[KthOf(IndicesOf(pts, type), k)]

\* C24: the request of an accepted trigger holds the POSITIVE points and the
\* NEGATIVE points of the point set as it is at the trigger, each list in
\* insertion order and every point in exactly one of the two.
C24_RequestPartitionsCurrentPoints ==
    [][lastOp'.op = "handleProcess:started" =>
           /\ IsSublistOfType(lastOp'.positivePoints, points, POSITIVE)
           /\ IsSublistOfType(lastOp'.negativePoints, points, NEGATIVE)
           /\ Len(lastOp'.positivePoints) + Len(lastOp'.negativePoints) = Len(points)
           /\ points' = points]_vars

\* C24 witness: three points were placed, the second was removed, and the
\* request of the trigger holds the two POSITIVE points left, in their
\* order, and no NEGATIVE point.
C24_Witness ==
    /\ lastOp.op = "handleProcess:started"
    /\ Len(lastOp.positivePoints) = 2
    /\ lastOp.positivePoints[1].id = 1
    /\ lastOp.positivePoints[2].id = 3
    /\ lastOp.negativePoints = <<>>
    /\ Len(points) = 2

\* C25: a point placed by a click has the type mode has at the click, and
\* a mode selection leaves the points placed so far as they are.
C25_NewPointTakesModeAndModeChangeKeepsPoints ==
    [][/\ lastOp'.op = "handleImageClick:added" =>
              /\ points'[Len(points')].type = mode
              /\ SubSeq(points', 1, Len(points)) = points
       /\ lastOp'.op = "setMode" => points' = points]_vars

\* C25 witness: a point placed after the mode went to NEGATIVE is NEGATIVE,
\* and the POSITIVE point placed before is still POSITIVE.
C25_Witness ==
    /\ lastOp.op = "handleImageClick:added"
    /\ Len(points) >= 2
    /\ points[1].type = POSITIVE
    /\ points[Len(points)].type = NEGATIVE
    /\ mode = NEGATIVE

\* C26: mode changes in no step but a mode selection: image load, Start
\* Over, clicks on the canvas and on markers, Reset Points, the trigger and
\* the answers of the capability all leave it as it is.
C26_OnlyModeSelectionChangesMode ==
    [][mode' # mode => lastOp'.op = "setMode"]_vars

\* C26 witness: Start Over has run and mode is still NEGATIVE.
C26_Witness ==
    /\ lastOp.op = "resetAll"
    /\ mode = NEGATIVE
    /\ sourceImage = Null

----------------------------------------------------------------------------
(* The state machine as a whole: C27 .. C29 *)

ResetOps == {"resetAll", "handleImageSelected"}

\* C28: when every call is answered in the end, a session in PROCESSING
\* reaches SUCCESS or ERROR; and nothing but an answer or a reset by the
\* user takes the session out of PROCESSING, so without them it stays
\* there for good.
C28_ProcessingEndsOnlyByAnswerOrReset ==
    /\ (appState = PROCESSING) ~> (appState \in {SUCCESS, ERROR})
    /\ [][(appState = PROCESSING /\ appState' # PROCESSING) =>
              lastOp'.op \in FailureOps \cup AnswerOps \cup ResetOps]_vars

\* C28 witness: the call of the session has been answered with a result
\* and the session, image and points still in place, is in SUCCESS.
C28_Witness ==
    /\ lastOp.op = "resolved"
    /\ appState = SUCCESS
    /\ inflight = EmptyBag
    /\ sourceImage # Null
    /\ Len(points) > 0
    /\ resultImage = lastOp.image

\* C29: permissionError is set only while the key is invalidated, also when
\* a key selection is pending while a request fails with permission denied.
C29_PermissionErrorImpliesNoKey == permissionError # Null => hasApiKey = FALSE

====
